---- MODULE Spec2Model ----
(***************************************************************************)
(* Model of main.py: the projection-file parser                              *)
(* (parse_projections_from_file / parse_projections_by_position), the OCR   *)
(* line normalizer (parse_line_data), the comparison                        *)
(* (compare_projections_with_lines) and the sort/report steps of main().    *)
(*                                                                          *)
(* Text is modelled by TLA+ strings, read character by character with       *)
(* SubSeq.  Numbers are exact decimals in units of 10^-FracDigits (a float  *)
(* with at most FracDigits fractional digits and of moderate size is        *)
(* identified with the decimal it was written as).  Line indices are the    *)
(* 0-based indices of the Python code.                                      *)
(***************************************************************************)
EXTENDS Integers, Sequences, FiniteSets, TLC

VARIABLES
    run,              \* 1 in the first run of main(), 2 in the second
    first,            \* history: how the first run ended
    rounding,         \* the values round(delta, 2) has given so far
    seen,             \* the text the OCR engine returned for each file so far
    source,           \* what open() and readlines() do on the projections file
    lines,            \* file.readlines() of the projections file
    images,           \* the files found in the images directory
    pc,               \* position of the run
    err,              \* "" or the name of the exception that ended the run
    i,                \* line index of parse_projections_from_file
    i0,               \* history: value of i when the current outer iteration began
    begun,            \* history: records whose rank line passed int(rank_line)
    named,            \* history: records whose name line has been read
    players,          \* players list of parse_projections_from_file
    cur,              \* name / team / position of the record being read
    projections,      \* projections dict being filled (insertion order)
    fi,               \* number of schema fields already visited by the for loop
    img,              \* number of image paths already visited by main()
    text,             \* all_extracted_text, as its splitlines()
    j,                \* number of OCR lines already visited by phase 1
    current_player,   \* pending header of parse_line_data
    combined_lines,   \* combined_lines of parse_line_data
    ci,               \* number of combined lines already visited by phase 2
    player_lines,     \* player_lines dict of parse_line_data (insertion order)
    extracted,        \* history: name, position and line_value of every match
    ri,               \* number of projection records already compared
    results,          \* comparison_results
    sorted_results,   \* sorted_results of main()
    saved             \* TRUE once save_results_to_json has written the output

vars == <<run, first, rounding, seen, source, lines, images, pc, err, i, i0, begun, named, players, cur, projections,
          fi, img, text, j, current_player, combined_lines, ci, player_lines,
          extracted, ri, results, sorted_results, saved>>

runVars == <<run, first, rounding, seen>>
parserVars == <<i, i0, begun, named, players, cur, projections, fi>>
ocrVars == <<img, text>>
normVars == <<j, current_player, combined_lines, ci, player_lines, extracted>>
cmpVars == <<ri, results, sorted_results, saved>>

-----------------------------------------------------------------------------
(* Bounds of the model *)

\* fractional decimal digits carried by the fixed-point numbers
FracDigits == 3
\* longest projection file made of arbitrary lines
MaxFreeLen == 3
\* records of the projection files that vary the projected yards
MaxPlayers == 3
\* longest OCR text made of arbitrary lines
MaxOcrLen == 3
\* most header + data pairs of an OCR text made of pairs
MaxPairs == 3
\* longest OCR text made of headers, data, noise, blank and padded lines
MaxLooseLen == 4
\* most files of the images directory when the files vary
MaxImages == 2

-----------------------------------------------------------------------------
(* Strings *)

Char(s, k) == SubSeq(s, k, k)

Whitespace == {" ", "\t"}

RECURSIVE LStrip(_)
LStrip(s) ==
    IF Len(s) > 0 /\ Char(s, 1) \in Whitespace
    THEN LStrip(SubSeq(s, 2, Len(s)))
    ELSE s

RECURSIVE RStrip(_)
RStrip(s) ==
    IF Len(s) > 0 /\ Char(s, Len(s)) \in Whitespace
    THEN RStrip(SubSeq(s, 1, Len(s) - 1))
    ELSE s

\* str.strip()
Strip(s) == LStrip(RStrip(s))

\* sub in s
Contains(sub, s) ==
    \E k \in 1..(Len(s) - Len(sub) + 1) : SubSeq(s, k, k + Len(sub) - 1) = sub

\* s.replace(old, ""), old non-empty
RECURSIVE RemoveAll(_, _)
RemoveAll(s, old) ==
    IF Len(s) < Len(old) THEN s
    ELSE IF SubSeq(s, 1, Len(old)) = old
         THEN RemoveAll(SubSeq(s, Len(old) + 1, Len(s)), old)
         ELSE Char(s, 1) \o RemoveAll(SubSeq(s, 2, Len(s)), old)

\* s[-2:]
LastTwo(s) == SubSeq(s, IF Len(s) > 2 THEN Len(s) - 1 ELSE 1, Len(s))

\* s[:-2]
DropLastTwo(s) == SubSeq(s, 1, Len(s) - 2)

DecimalDigits == {"0", "1", "2", "3", "4", "5", "6", "7", "8", "9"}

\* characters with the Unicode digit property that are not decimal digits:
\* str.isdigit() accepts them, int() and float() do not
OtherDigits == {"²"}

DigitVal(c) ==
    CASE c = "0" -> 0 [] c = "1" -> 1 [] c = "2" -> 2 [] c = "3" -> 3
      [] c = "4" -> 4 [] c = "5" -> 5 [] c = "6" -> 6 [] c = "7" -> 7
      [] c = "8" -> 8 [] c = "9" -> 9

AllIn(s, S) == \A k \in 1..Len(s) : Char(s, k) \in S

\* str.isdigit()
IsDigit(s) == Len(s) > 0 /\ AllIn(s, DecimalDigits \cup OtherDigits)

\* the strings int() converts (over the characters of the model: no sign,
\* no underscore)
IsIntLiteral(s) == Len(s) > 0 /\ AllIn(s, DecimalDigits)

\* the strings float() converts (over the characters of the model): digits
\* with at most one dot and at least one digit
IsFloatLiteral(s) ==
    /\ AllIn(s, DecimalDigits \cup {"."})
    /\ \E k \in 1..Len(s) : Char(s, k) \in DecimalDigits
    /\ Cardinality({k \in 1..Len(s) : Char(s, k) = "."}) <= 1

RECURSIVE Pow10(_)
Pow10(n) == IF n <= 0 THEN 1 ELSE 10 * Pow10(n - 1)

Unit == Pow10(FracDigits)

\* value of a digit string as a natural number
RECURSIVE NatVal(_)
NatVal(s) ==
    IF Len(s) = 0 THEN 0
    ELSE 10 * NatVal(SubSeq(s, 1, Len(s) - 1)) + DigitVal(Char(s, Len(s)))

\* value of the digits after the dot, in units of 10^-FracDigits
RECURSIVE FracVal(_, _)
FracVal(s, place) ==
    IF Len(s) = 0 \/ place <= 0 THEN 0
    ELSE DigitVal(Char(s, 1)) * Pow10(place - 1)
         + FracVal(SubSeq(s, 2, Len(s)), place - 1)

DotAt(s) ==
    IF \E k \in 1..Len(s) : Char(s, k) = "."
    THEN CHOOSE k \in 1..Len(s) : Char(s, k) = "."
    ELSE Len(s) + 1

\* float(s) for a float literal, in units of 10^-FracDigits
FloatVal(s) ==
    NatVal(SubSeq(s, 1, DotAt(s) - 1)) * Unit
    + FracVal(SubSeq(s, DotAt(s) + 1, Len(s)), FracDigits)

None == [none |-> TRUE, int |-> FALSE, val |-> 0]
Number(isInt, v) == [none |-> FALSE, int |-> isInt, val |-> v]

\* parse_number: int if possible, otherwise float, otherwise None
parse_number(value) ==
    IF IsIntLiteral(value) THEN Number(TRUE, NatVal(value) * Unit)
    ELSE IF IsFloatLiteral(value) THEN Number(FALSE, FloatVal(value))
    ELSE None

\* mutant: the name is trimmed but "Headshot" stays
clean_player_name_NoReplace(raw_name) == Strip(raw_name)

clean_player_name(raw_name) == Strip(RemoveAll(raw_name, "Headshot"))

\* mutant: the last two characters stay in the team
clean_team_name_Keep(raw_team) == Strip(raw_team)

clean_team_name(raw_team) ==
    IF Len(raw_team) > 2 THEN Strip(DropLastTwo(raw_team)) ELSE Strip(raw_team)

\* POSITION_FIELDS.get(position); <<>> stands for the missing entry
POSITION_FIELDS(position) ==
    CASE position = "RB" ->
           <<"carries", "yards", "average", "td", "receptions",
             "receiving_yards", "receiving_td", "fantasy_points">>
      [] position \in {"WR", "TE"} ->
           <<"targets", "receptions", "receiving_yards", "average", "td",
             "carries", "rush_yards", "rush_td", "fantasy_points">>
      [] position = "QB" ->
           <<"completions", "yards", "td", "interceptions", "carries",
             "rush_yards", "rush_td", "fantasy_points">>
      [] OTHER -> <<>>

-----------------------------------------------------------------------------
(* Dicts in insertion order: sequences of [k, v] *)

HasKey(d, key) == \E n \in 1..Len(d) : d[n].k = key

KeyIndex(d, key) == CHOOSE n \in 1..Len(d) : d[n].k = key

\* d[key] = value
DictSet(d, key, value) ==
    IF HasKey(d, key)
    THEN [d EXCEPT ![KeyIndex(d, key)] = [k |-> key, v |-> value]]
    ELSE Append(d, [k |-> key, v |-> value])

\* d.get(key), None when absent
DictGet(d, key) == IF HasKey(d, key) THEN d[KeyIndex(d, key)].v ELSE None

Keys(d) == [n \in 1..Len(d) |-> d[n].k]

-----------------------------------------------------------------------------
(* parse_projections_from_file *)

total_lines == Len(lines)

\* lines[k], k the 0-based index of the code
Line(k) == lines[k + 1]

\* mutant: the marker of another week
Marker_Week14 == "WEEK 14 PROJECTIONS"

Marker == "WEEK 13 PROJECTIONS"

\* line == 'Rank' and (i + 1) < total_lines and lines[i + 1].strip() == 'Player'
IsAnchor(k) ==
    /\ Strip(Line(k)) = "Rank"
    /\ k + 1 < total_lines
    /\ Strip(Line(k + 1)) = "Player"

Player(name, team, position, projs) ==
    [name |-> name, team |-> team, position |-> position, projections |-> projs]

NoRecord == [name |-> "", team |-> "", position |-> ""]

\* position = raw_team_position[-2:].strip()
PositionOf(raw_team_position) == Strip(LastTwo(raw_team_position))

\* the step of the marker scan: i += 1
AfterScanned(k) == k + 1

\* the gap between the name line and the team+position line: i += 2
AfterName(k) == k + 2

\* mutant: the fields are assigned from the end of the schema
FieldAt_Reversed(fields, n) == fields[Len(fields) - n]

\* the field of the n-th iteration (n iterations done) of: for field in fields
FieldAt(fields, n) == fields[n + 1]

\* mutant: the loop stops one field early
MoreFields_OneLess(fields, n, k) == n + 1 < Len(fields) /\ k < total_lines

\* the for loop of parse_projections_by_position goes on: a field is left and
\* the input is not exhausted
MoreFields(fields, n, k) == n < Len(fields) /\ k < total_lines

\* mutant: the record that lacks its marker is dropped
WithoutMarker_Dropped(ps, c) == ps

\* players after the record c whose marker was not found: projections = {}
WithoutMarker(ps, c) == Append(ps, Player(c.name, c.team, c.position, <<>>))

\* mutant: the record cut off before its team+position line is dropped
Partial_Dropped(ps, name) == ps

\* players after the partial record of a file that ends before the
\* team+position line
Partial(ps, name) == Append(ps, Player(name, "Unknown", "Unknown", <<>>))

\* the failures of open(file_path, "r") and file.readlines() that are no
\* FileNotFoundError
OpenErrors ==
    [unreadable |-> "PermissionError: open(file_path)",
     undecodable |-> "UnicodeDecodeError: file.readlines()"]

\* mutant: every failure of the projections file is caught
Caught_Any(status) == status # "ok"

\* except FileNotFoundError: the only failure that is caught
Caught(status) == status = "missing"

\* the try block: the file is opened and read (lines 79-84)
OpenFile ==
    /\ pc = "open"
    /\ IF source = "ok"
       THEN pc' = "outer" /\ UNCHANGED err
       ELSE IF Caught(source)
       THEN \* error logged, return []
            pc' = "parsed" /\ UNCHANGED err
       ELSE \* the exception leaves parse_projections_from_file and main()
            pc' = "raised" /\ err' = OpenErrors[source]
    /\ UNCHANGED <<runVars, source, lines, images, parserVars, ocrVars, normVars, cmpVars>>

\* else branch of the outer loop: i += 1
SeekAnchor ==
    /\ pc = "outer"
    /\ i < total_lines
    /\ ~IsAnchor(i)
    /\ i' = i + 1
    /\ i0' = i
    /\ UNCHANGED <<runVars, source, lines, images, pc, err, begun, named, players, cur,
                   projections, fi, ocrVars, normVars, cmpVars>>

\* the outer loop ends: the function returns players
ParserReturn ==
    /\ pc = "outer"
    /\ i >= total_lines
    /\ pc' = "parsed"
    /\ UNCHANGED <<runVars, source, lines, images, err, parserVars, ocrVars, normVars, cmpVars>>

\* the anchor matched: rank, name and team+position lines (lines 94-127)
ReadHead ==
    /\ pc = "outer"
    /\ i < total_lines
    /\ IsAnchor(i)
    /\ i0' = i
    /\ LET iRank == i + 2
           iName == iRank + 1
           iTeam == AfterName(iName)
       IN
       IF iRank >= total_lines
       THEN \* break
            /\ i' = iRank /\ pc' = "parsed"
            /\ UNCHANGED <<err, begun, named, players, cur>>
       ELSE IF ~IsDigit(Strip(Line(iRank)))
       THEN \* warning, i += 1, continue
            /\ i' = iRank + 1 /\ pc' = "outer"
            /\ UNCHANGED <<err, begun, named, players, cur>>
       ELSE IF ~IsIntLiteral(Strip(Line(iRank)))
       THEN \* int(rank_line) raises ValueError
            /\ i' = iRank /\ pc' = "raised" /\ err' = "ValueError: int(rank_line)"
            /\ UNCHANGED <<begun, named, players, cur>>
       ELSE IF iName >= total_lines
       THEN \* break
            /\ i' = iName /\ pc' = "parsed" /\ begun' = begun + 1
            /\ UNCHANGED <<err, named, players, cur>>
       ELSE IF iTeam >= total_lines
       THEN \* partial record, break
            /\ i' = iTeam /\ pc' = "parsed"
            /\ begun' = begun + 1 /\ named' = named + 1
            /\ players' = Partial(players, clean_player_name(Strip(Line(iName))))
            /\ UNCHANGED <<err, cur>>
       ELSE /\ i' = iTeam + 1 /\ pc' = "marker"
            /\ begun' = begun + 1 /\ named' = named + 1
            /\ cur' = [name |-> clean_player_name(Strip(Line(iName))),
                       team |-> clean_team_name(Strip(Line(iTeam))),
                       position |-> PositionOf(Strip(Line(iTeam)))]
            /\ UNCHANGED <<err, players>>
    /\ UNCHANGED <<runVars, source, lines, images, projections, fi, ocrVars, normVars, cmpVars>>

\* the marker scan: while i < total_lines and Marker not in lines[i]: i += 1
SeekMarker ==
    /\ pc = "marker"
    /\ i < total_lines
    /\ ~Contains(Marker, Line(i))
    /\ i' = AfterScanned(i)
    /\ UNCHANGED <<runVars, source, lines, images, pc, err, i0, begun, named, players, cur,
                   projections, fi, ocrVars, normVars, cmpVars>>

\* the marker was found: i += 1 and parse_projections_by_position begins
MarkerFound ==
    /\ pc = "marker"
    /\ i < total_lines
    /\ Contains(Marker, Line(i))
    /\ i' = i + 1
    /\ projections' = <<>>
    /\ fi' = 0
    /\ IF POSITION_FIELDS(cur.position) = <<>>
       THEN \* no fields for the position: warning, return {}, i
            /\ players' = Append(players,
                   Player(cur.name, cur.team, cur.position, <<>>))
            /\ cur' = NoRecord
            /\ pc' = "outer"
       ELSE /\ pc' = "schema"
            /\ UNCHANGED <<players, cur>>
    /\ UNCHANGED <<runVars, source, lines, images, err, i0, begun, named, ocrVars, normVars, cmpVars>>

\* the input ended before a marker: projections = {}, the record is appended
MarkerMissing ==
    /\ pc = "marker"
    /\ i >= total_lines
    /\ players' = WithoutMarker(players, cur)
    /\ cur' = NoRecord
    /\ projections' = <<>>
    /\ pc' = "outer"
    /\ UNCHANGED <<runVars, source, lines, images, err, i, i0, begun, named, fi,
                   ocrVars, normVars, cmpVars>>

\* one iteration of the for loop of parse_projections_by_position
ReadField ==
    /\ pc = "schema"
    /\ MoreFields(POSITION_FIELDS(cur.position), fi, i)
    /\ projections' = DictSet(projections, FieldAt(POSITION_FIELDS(cur.position), fi),
                              parse_number(Strip(Line(i))))
    /\ i' = i + 1
    /\ fi' = fi + 1
    /\ UNCHANGED <<runVars, source, lines, images, pc, err, i0, begun, named, players, cur,
                   ocrVars, normVars, cmpVars>>

\* the for loop ends (fields exhausted, or break at the end of the input):
\* the record is appended
SchemaEnd ==
    /\ pc = "schema"
    /\ ~MoreFields(POSITION_FIELDS(cur.position), fi, i)
    /\ players' = Append(players,
           Player(cur.name, cur.team, cur.position, projections))
    /\ cur' = NoRecord
    /\ projections' = <<>>
    /\ pc' = "outer"
    /\ UNCHANGED <<runVars, source, lines, images, err, i, i0, begun, named, fi,
                   ocrVars, normVars, cmpVars>>

-----------------------------------------------------------------------------
(* main(): the projections check and the OCR of the images *)

\* lines of an OCR text that the engine is free to return
OcrAlphabet ==
    {"Al Po (WR)", "Al Po (TE)", "Cy Ro (RB)",
     "70.5 Receiving Yards", "65.0 Receiving Yards", "1.2.3 Receiving Yards",
     "Cy Ro (RB) 9.5 Receiving Yards", "Over 1.9x"}

\* lines of an OCR text with blank lines, padding and noise
LooseAlphabet ==
    {"Al Po (WR)", "Cy Ro (RB) 9.5 Receiving Yards", " 70.5 Receiving Yards ",
     "", "Over 1.9x"}

SeqsUpTo(S, n) == UNION {[1..m -> S] : m \in 0..n}

\* texts of up to n pairs of a header line and a data line
RECURSIVE PairTexts(_)
PairTexts(n) ==
    IF n = 0 THEN {<<>>}
    ELSE PairTexts(n - 1)
         \cup {t \o <<h, d>> :
                 t \in PairTexts(n - 1),
                 h \in {"Al Po (WR)", "Al Po (TE)", "Cy Ro (RB)"},
                 d \in {"70.5 Receiving Yards", "65.0 Receiving Yards"}}

\* the texts the OCR engine may return for an image
TextsOf(tag) ==
    CASE tag = "fifty-a" ->
           {<<"Jane Doe (RB)", "50.0 Receiving Yards", "Al Po (RB)", "More",
              "50.0 Receiving Yards", "Cy Ro (RB)", "50.0 Receiving Yards">>}
      [] tag = "fifty-b" ->
           {<<"Dee Fu (RB)", "50.0 Receiving Yards", "Eve Ng (RB)",
              "50.0 Receiving Yards">>}
      [] tag = "other" -> {<<"Zed Ex (WR)", "9.5 Receiving Yards">>}
      [] tag = "partial" ->
           {<<"jane doe (RB)", "50.0 Receiving Yards", "Al Po (RB)",
              "50.0 Receiving Yards", "Zed Ex (WR)", "9.5 Receiving Yards",
              "Cy Ro (RB)", "50.0 Receiving Yards">>}
      [] tag = "jane-one-line" -> {<<"Jane Doe (RB) 55.0 Receiving Yards">>}
      [] tag = "jane-two-lines" -> {<<"Jane Doe (RB)", "55.0 Receiving Yards">>}
      [] tag = "free" -> SeqsUpTo(OcrAlphabet, MaxOcrLen)
      [] tag = "pairs" -> PairTexts(MaxPairs)
      [] tag = "loose" -> SeqsUpTo(LooseAlphabet, MaxLooseLen)
      [] tag = "blank" -> {<<>>, <<" ", "">>}
      [] tag = "noise" -> {<<"Over 1.9x", "(live)">>}
      [] OTHER -> {<<>>}

\* ALLOWED_IMAGE_EXTENSIONS; an image's ext is splitext(path)[1].lower()
ALLOWED_IMAGE_EXTENSIONS == {".png", ".jpg", ".jpeg", ".tiff", ".bmp", ".gif"}

\* splitlines() of extract_text_from_image(path) + "\n", t the lines the OCR
\* engine returns: t for an image that is processed, "" for one that is not
ExtractedLines(image, t) == IF image.ok /\ t # <<>> THEN t ELSE <<"">>

\* all_extracted_text.strip() is empty
IsBlank(t) == \A n \in 1..Len(t) : Strip(t[n]) = ""

\* the texts the OCR engine may return for the n-th file: in a second run,
\* the text it returned in the first
Reads(r, s, n, tag) == IF r = 2 THEN {s[n]} ELSE TextsOf(tag)

\* if not projections: return
CheckProjections ==
    /\ pc = "parsed"
    /\ pc' = IF players = <<>> THEN "exit" ELSE "ocr"
    /\ UNCHANGED <<runVars, source, lines, images, err, parserVars, ocrVars, normVars, cmpVars>>

\* one iteration of the loop over image_paths
OcrImage ==
    /\ pc = "ocr"
    /\ img < Len(images)
    /\ img' = img + 1
    /\ IF images[img + 1].ext \in ALLOWED_IMAGE_EXTENSIONS
       THEN \E t \in Reads(run, seen, img + 1, images[img + 1].text) :
                /\ text' = text \o ExtractedLines(images[img + 1], t)
                /\ seen' = IF run = 1 THEN Append(seen, t) ELSE seen
       ELSE \* skipping non-image file
            /\ text' = text
            /\ seen' = IF run = 1 THEN Append(seen, <<>>) ELSE seen
    /\ UNCHANGED <<run, first, rounding, source, lines, images, pc, err,
                   parserVars, normVars, cmpVars>>

\* if not all_extracted_text.strip(): return; otherwise parse_line_data begins
CheckText ==
    /\ pc = "ocr"
    /\ img >= Len(images)
    /\ pc' = IF IsBlank(text) THEN "exit" ELSE "pair"
    /\ UNCHANGED <<runVars, source, lines, images, err, parserVars, ocrVars, normVars, cmpVars>>

-----------------------------------------------------------------------------
(* parse_line_data *)

CharAt(s, k) == IF k \in 1..Len(s) THEN SubSeq(s, k, k) ELSE ""

\* mutant: a line that holds the phrase is no header
IsHeader_NotData(line) ==
    Contains("(", line) /\ Contains(")", line)
    /\ ~Contains("Receiving Yards", line)

\* "(" in line and ")" in line
IsHeader(line) == Contains("(", line) /\ Contains(")", line)

\* mutant: a data line is combined whether or not a header is pending
IsData_NoPending(line, pending) == Contains("Receiving Yards", line)

\* "Receiving Yards" in line and current_player
IsData(line, pending) == Contains("Receiving Yards", line) /\ pending # ""

\* one iteration of the loop that combines related lines
PairLine ==
    /\ pc = "pair"
    /\ j < Len(text)
    /\ j' = j + 1
    /\ LET line == Strip(text[j + 1]) IN
       IF line = ""
       THEN UNCHANGED <<current_player, combined_lines>>
       ELSE IF IsHeader(line)
       THEN current_player' = line /\ UNCHANGED combined_lines
       ELSE IF IsData(line, current_player)
       THEN /\ combined_lines' =
                   Append(combined_lines, current_player \o " " \o line)
            /\ current_player' = ""
       ELSE UNCHANGED <<current_player, combined_lines>>
    /\ UNCHANGED <<runVars, source, lines, images, pc, err, parserVars, ocrVars, ci,
                   player_lines, extracted, cmpVars>>

PairDone ==
    /\ pc = "pair"
    /\ j >= Len(text)
    /\ pc' = "extract"
    /\ UNCHANGED <<runVars, source, lines, images, err, parserVars, ocrVars, normVars, cmpVars>>

\* re.match(r"(.+?)\s\((.+?)\)\s([\d.]+)\sReceiving Yards", s): the group
\* lengths <<a, b, c>> of every way the pattern matches at the start of s
NameEnds(s) ==
    {a \in 1..Len(s) : CharAt(s, a + 1) \in Whitespace /\ CharAt(s, a + 2) = "("}

ParenEnds(s, a) ==
    {b \in 1..Len(s) :
        CharAt(s, a + 3 + b) = ")" /\ CharAt(s, a + 4 + b) \in Whitespace}

NumEnds(s, a, b) ==
    {c \in 1..Len(s) :
        /\ a + 4 + b + c <= Len(s)
        /\ AllIn(SubSeq(s, a + 5 + b, a + 4 + b + c), DecimalDigits \cup {"."})
        /\ CharAt(s, a + 5 + b + c) \in Whitespace
        /\ a + 20 + b + c <= Len(s)
        /\ SubSeq(s, a + 6 + b + c, a + 20 + b + c) = "Receiving Yards"}

MatchSet(s) ==
    UNION {UNION {{<<a, b, c>> : c \in NumEnds(s, a, b)} : b \in ParenEnds(s, a)}
           : a \in NameEnds(s)}

\* the match the backtracking finds first: shortest group 1, then shortest
\* group 2, then longest group 3
FirstMatch(s) ==
    LET all == MatchSet(s) IN
    CHOOSE m \in all :
        \A n \in all :
            \/ m[1] < n[1]
            \/ m[1] = n[1] /\ m[2] < n[2]
            \/ m[1] = n[1] /\ m[2] = n[2] /\ m[3] >= n[3]

Matches(s) == MatchSet(s) # {}

\* match.group(1), (2), (3) of the match m
Group1(s, m) == SubSeq(s, 1, m[1])
Group2(s, m) == SubSeq(s, m[1] + 3, m[1] + 2 + m[2])
Group3(s, m) == SubSeq(s, m[1] + 5 + m[2], m[1] + 4 + m[2] + m[3])

PlayerLine(position, line) == [position |-> position, line |-> line]

\* mutant: the comparison is < instead of >
Replaces_Less(line_value, stored) == line_value < stored

\* if line_value > player_lines[player_name]["line"]
Replaces(line_value, stored) == line_value > stored

\* the insert / keep-the-highest update of player_lines
Dedup(d, player_name, position, line_value) ==
    IF HasKey(d, player_name)
    THEN IF Replaces(line_value, DictGet(d, player_name).line)
         THEN DictSet(d, player_name, PlayerLine(position, line_value))
         ELSE d
    ELSE DictSet(d, player_name, PlayerLine(position, line_value))

\* one iteration of the loop over combined_lines
ExtractLine ==
    /\ pc = "extract"
    /\ ci < Len(combined_lines)
    /\ LET line == combined_lines[ci + 1] IN
       IF ~Matches(line)
       THEN \* warning: unmatched line format
            /\ ci' = ci + 1
            /\ UNCHANGED <<pc, err, player_lines, extracted>>
       ELSE LET m == FirstMatch(line)
                player_name == Strip(Group1(line, m))
                position == Strip(Group2(line, m))
                number == Strip(Group3(line, m))
            IN  IF ~IsFloatLiteral(number)
                THEN \* float(match.group(3).strip()) raises ValueError
                     /\ pc' = "raised"
                     /\ err' = "ValueError: float(match.group(3))"
                     /\ UNCHANGED <<ci, player_lines, extracted>>
                ELSE /\ ci' = ci + 1
                     /\ player_lines' = Dedup(player_lines, player_name,
                                              position, FloatVal(number))
                     /\ extracted' = Append(extracted,
                            [name |-> player_name, position |-> position,
                             line |-> FloatVal(number)])
                     /\ UNCHANGED <<pc, err>>
    /\ UNCHANGED <<runVars, source, lines, images, parserVars, ocrVars, j, current_player,
                   combined_lines, cmpVars>>

\* parse_line_data returns; if not player_lines: return
CheckLines ==
    /\ pc = "extract"
    /\ ci >= Len(combined_lines)
    /\ pc' = IF player_lines = <<>> THEN "exit" ELSE "compare"
    /\ UNCHANGED <<runVars, source, lines, images, err, parserVars, ocrVars, normVars, cmpVars>>

-----------------------------------------------------------------------------
(* compare_projections_with_lines *)

\* the "N/A" sentinel and the numbers of a result
NA == [na |-> TRUE, val |-> 0]
Num(v) == [na |-> FALSE, val |-> v]

Abs(x) == IF x < 0 THEN 0 - x ELSE x

\* round(delta, 2): the multiples of 10^-2 nearest to d.  A d exactly half way
\* between two of them is a float a little above or below the half, and round
\* gives either neighbour.
Round2(d) ==
    LET u == Pow10(FracDigits - 2)
        q == d \div u
        r == d % u
    IN  IF 2 * r < u THEN {q * u}
        ELSE IF 2 * r > u THEN {(q + 1) * u}
        ELSE {q * u, (q + 1) * u}

\* mutant: the comparison is >= instead of >
Suggest_GE(delta) == IF delta >= 0 THEN "Over" ELSE "Under"

\* suggestion = "Over" if delta > 0 else "Under"
Suggest(delta) == IF delta > 0 THEN "Over" ELSE "Under"

\* projected_yards if projected_yards is not None else "N/A"
OrNA(value) == IF value.none THEN NA ELSE Num(value.val)

\* if name in player_lines
HasLine(d, name) == HasKey(d, name)

\* the result appended for one player; rounded is the value of round(delta, 2)
ResultFor(player, d, rounded) ==
    LET projected_yards == DictGet(player.projections, "receiving_yards") IN
    IF HasLine(d, player.name)
    THEN IF projected_yards.none
         THEN [name |-> player.name, position |-> player.position,
               projected_yards |-> NA,
               line |-> Num(DictGet(d, player.name).line),
               delta |-> NA,
               suggestion |-> "N/A (Missing Projections)"]
         ELSE [name |-> player.name, position |-> player.position,
               projected_yards |-> Num(projected_yards.val),
               line |-> Num(DictGet(d, player.name).line),
               delta |-> Num(rounded),
               suggestion |->
                   Suggest(projected_yards.val - DictGet(d, player.name).line)]
    ELSE [name |-> player.name, position |-> player.position,
          projected_yards |-> OrNA(projected_yards),
          line |-> NA, delta |-> NA, suggestion |-> "No Line Available"]

\* the operands of delta = projected_yards - line_value where both exist
Operands(player, d) ==
    IF HasLine(d, player.name)
       /\ ~DictGet(player.projections, "receiving_yards").none
    THEN <<DictGet(player.projections, "receiving_yards").val,
           DictGet(d, player.name).line>>
    ELSE <<0, 0>>

\* mutant: the same difference may round differently each time
Rounded_Unfixed(memo, operands) == Round2(operands[1] - operands[2])

\* round(delta, 2) is a function of its operands: the value it gave before,
\* or any value Round2 allows when the operands are new
Rounded(memo, operands) ==
    IF \E e \in memo : e.operands = operands
    THEN {e.delta : e \in {x \in memo : x.operands = operands}}
    ELSE Round2(operands[1] - operands[2])

\* one iteration of the loop over the projection records
CompareOne ==
    /\ pc = "compare"
    /\ ri < Len(players)
    /\ ri' = ri + 1
    /\ \E rounded \in Rounded(rounding, Operands(players[ri + 1], player_lines)) :
           /\ results' = Append(results,
                   ResultFor(players[ri + 1], player_lines, rounded))
           /\ rounding' = rounding \cup
                   {[operands |-> Operands(players[ri + 1], player_lines),
                     delta |-> rounded]}
    /\ UNCHANGED <<run, first, seen, source, lines, images, pc, err,
                   parserVars, ocrVars, normVars, sorted_results, saved>>

\* compare returns; if not comparison_results: return
CheckResults ==
    /\ pc = "compare"
    /\ ri >= Len(players)
    /\ pc' = IF results = <<>> THEN "exit" ELSE "sort"
    /\ UNCHANGED <<runVars, source, lines, images, err, parserVars, ocrVars, normVars, cmpVars>>

-----------------------------------------------------------------------------
(* main(): sort and save *)

\* mutant: the key is the delta itself, not its absolute value
SortKey_NoAbs(x) ==
    IF x.delta.na THEN [neginf |-> TRUE, mag |-> 0]
    ELSE [neginf |-> FALSE, mag |-> x.delta.val]

\* key=lambda x: abs(x['delta']) if isinstance(x['delta'], (int, float))
\*               else -float('inf')
SortKey(x) ==
    IF x.delta.na THEN [neginf |-> TRUE, mag |-> 0]
    ELSE [neginf |-> FALSE, mag |-> Abs(x.delta.val)]

\* k1 < k2 on keys
KeyLess(k1, k2) ==
    IF k1.neginf THEN ~k2.neginf ELSE ~k2.neginf /\ k1.mag < k2.mag

\* x comes before y under reverse=True
Before(x, y) == KeyLess(SortKey(y), SortKey(x))

\* insert x behind every element that does not come after it
RECURSIVE InsertStable(_, _)
InsertStable(done, x) ==
    IF done = <<>> THEN <<x>>
    ELSE IF Before(x, Head(done)) THEN <<x>> \o done
    ELSE <<Head(done)>> \o InsertStable(Tail(done), x)

\* sorted(seq, key=..., reverse=True): the stable sort, keys descending
RECURSIVE Sorted(_)
Sorted(seq) ==
    IF seq = <<>> THEN <<>>
    ELSE InsertStable(Sorted(SubSeq(seq, 1, Len(seq) - 1)), seq[Len(seq)])

SortResults ==
    /\ pc = "sort"
    /\ sorted_results' = Sorted(results)
    /\ pc' = "report"
    /\ UNCHANGED <<runVars, source, lines, images, err, parserVars, ocrVars, normVars,
                   ri, results, saved>>

\* the report is logged and save_results_to_json writes the results
SaveResults ==
    /\ pc = "report"
    /\ saved' = TRUE
    /\ pc' = "done"
    /\ UNCHANGED <<runVars, source, lines, images, err, parserVars, ocrVars, normVars,
                   ri, results, sorted_results>>

-----------------------------------------------------------------------------
(* The run *)

\* how a run that has ended is remembered
Ended(p, e, ps, t, ls, rs) ==
    [pc |-> p, err |-> e, players |-> ps, text |-> t, player_lines |-> ls,
     sorted_results |-> rs]

NoRun == Ended("", "", <<>>, <<>>, <<>>, <<>>)

\* main() is called again on the same projections file and the same images:
\* every local of the first run is gone
Rerun ==
    /\ run = 1
    /\ pc \in {"done", "exit", "raised"}
    /\ run' = 2
    /\ first' = Ended(pc, err, players, text, player_lines, sorted_results)
    /\ pc' = "open" /\ err' = ""
    /\ i' = 0 /\ i0' = -1 /\ begun' = 0 /\ named' = 0
    /\ players' = <<>> /\ cur' = NoRecord /\ projections' = <<>> /\ fi' = 0
    /\ img' = 0 /\ text' = <<>>
    /\ j' = 0 /\ current_player' = "" /\ combined_lines' = <<>> /\ ci' = 0
    /\ player_lines' = <<>> /\ extracted' = <<>>
    /\ ri' = 0 /\ results' = <<>> /\ sorted_results' = <<>> /\ saved' = FALSE
    /\ UNCHANGED <<rounding, seen, source, lines, images>>

Next ==
    \/ OpenFile
    \/ SeekAnchor \/ ReadHead \/ SeekMarker \/ MarkerFound \/ MarkerMissing
    \/ ReadField \/ SchemaEnd \/ ParserReturn
    \/ CheckProjections \/ OcrImage \/ CheckText
    \/ PairLine \/ PairDone \/ ExtractLine \/ CheckLines
    \/ CompareOne \/ CheckResults \/ SortResults \/ SaveResults
    \/ Rerun

\* main() begins; status is what opening and reading the projections file
\* will give, file its lines when they can be read
StartWith(status, file, imgs) ==
    /\ run = 1 /\ first = NoRun /\ rounding = {} /\ seen = <<>>
    /\ source = status
    /\ lines = file /\ images = imgs
    /\ pc = "open" /\ err = ""
    /\ i = 0 /\ i0 = -1 /\ begun = 0 /\ named = 0
    /\ players = <<>> /\ cur = NoRecord /\ projections = <<>> /\ fi = 0
    /\ img = 0 /\ text = <<>>
    /\ j = 0 /\ current_player = "" /\ combined_lines = <<>> /\ ci = 0
    /\ player_lines = <<>> /\ extracted = <<>>
    /\ ri = 0 /\ results = <<>> /\ sorted_results = <<>> /\ saved = FALSE

\* main() on a projections file that can be read
Start(file, imgs) == StartWith("ok", file, imgs)

-----------------------------------------------------------------------------------------------------------------------------------------------------
(* Inputs *)

\* a file of the images directory: its lower-cased extension, whether it can
\* be opened and processed, and the name of the text the OCR engine reads
Image(ext, ok, tag) == [ext |-> ext, ok |-> ok, text |-> tag]

PlayerName(n) == <<"Jane Doe", "Al Po", "Cy Ro", "Dee Fu", "Eve Ng", "Flo Yi">>[n]

\* eight RB schema lines with the given projected receiving yards
RBValues(ry) == <<"10", "50", "5.0", "1", "3", ry, "0", "12.3">>

\* a well-formed RB record
RBRecord(rank, name, ry) ==
    <<"Rank", "Player", rank, name, "", "LionsLionsRB", Marker>> \o RBValues(ry)

\* a well-formed QB record (its schema has no receiving_yards)
QBRecord(rank, name) ==
    <<"Rank", "Player", rank, name, "", "JetsQB", "  WEEK 13 PROJECTIONS  ",
      "21", "250.5", "2", "1", "4", "18", "0", "17.9">>

\* a record without its marker
NoMarkerRecord(rank, name) ==
    <<"Rank", "Player", rank, name, "", "BearsWR", "Bye week">>

YardValues == {"53.0", "47", "50.004", "50.005", "abc"}

\* n RB records whose projected yards vary
RECURSIVE YardFiles(_)
YardFiles(n) ==
    IF n = 0 THEN {<<>>}
    ELSE {f \o RBRecord("1", PlayerName(n), ry) : f \in YardFiles(n - 1),
                                                  ry \in YardValues}

FourDeltas ==
    RBRecord("1", "Jane Doe", "53.0") \o RBRecord("2", "Al Po", "43.0")
    \o RBRecord("3", "Cy Ro", "n/a") \o RBRecord("4", "Dee Fu", "51.0")

JaneFile == <<"Week 13">> \o RBRecord("1", "Jane DoeHeadshot ", "55.0")

MixedFile ==
    <<"Week 13">> \o QBRecord("1", "Jane Doe") \o RBRecord("2", "Al Po", "61")
    \o NoMarkerRecord("3", "Cy Ro")

CompareFiles == YardFiles(MaxPlayers) \cup {FourDeltas, JaneFile, MixedFile}

\* every name of the files has a line of 50.0
FiftyImages ==
    <<Image(".png", TRUE, "fifty-a"), Image(".txt", TRUE, "other"),
      Image(".jpg", FALSE, "other"), Image(".jpg", TRUE, "fifty-b")>>

\* some names have no line, or one spelled differently
PartialImages == <<Image(".png", TRUE, "partial")>>

JaneOneLine == <<Image(".png", TRUE, "jane-one-line")>>

JaneTwoLines == <<Image(".png", TRUE, "jane-two-lines")>>

FreeImages == <<Image(".png", TRUE, "free")>>

PairImages == <<Image(".png", TRUE, "pairs")>>

LooseImages == <<Image(".png", TRUE, "loose")>>

CompareInputs ==
    (CompareFiles \X {FiftyImages, PartialImages})
    \cup ({JaneFile, MixedFile} \X {JaneOneLine, JaneTwoLines})

\* the pipeline on files whose projected yards vary
Init == \E in \in CompareInputs : Start(in[1], in[2])

Spec == Init /\ [][Next]_vars

\* the lines after the marker of a record of the given position, the last
\* `short` of them missing
ValueLines(position, short) ==
    SubSeq(<<"10", "50", "5.0", "1", "3", "55.0", "0", "12.3", "9">>, 1,
           (IF POSITION_FIELDS(position) = <<>> THEN 2
            ELSE Len(POSITION_FIELDS(position))) - short)

\* a record of "Jane Doe": its rank line, team+position token, the lines
\* between the token and the marker, the marker line (or none) and the
\* number of schema lines it lacks
Block(rank, token, between, marker, short) ==
    <<"Rank", "Player", rank, "Jane DoeHeadshot ", "", token>>
    \o between \o marker \o ValueLines(PositionOf(token), short)

RankLines == {"7", "seven", "²"}
Tokens ==
    {"LionsLionsRB", "BearsWR", "PackTE", "JetsQB", "OwlsXX", "K", "RB", "Jets K"}
MarkerLines == {<<Marker>>, <<"WEEK 14 PROJECTIONS">>, <<>>}
BetweenLines == {<<>>, <<"vs DAL">>}

Blocks ==
    {Block(r, t, b, m, sh) :
        r \in RankLines, t \in Tokens, b \in BetweenLines, m \in MarkerLines,
        sh \in {0, 2}}

Prefixes(f) == {SubSeq(f, 1, n) : n \in 0..Len(f)}

\* a record that follows another one
Followers ==
    {RBRecord("8", "Al Po", "61"), NoMarkerRecord("8", "Al Po"),
     <<"Rank", "Player", "8", "Al Po", "", "BearsWR", "ESPN", "WEEK 13 PROJECTIONS",
       "6", "4", "48.5", "12.1", "0", "1", "n/a", "0", "8.8">>}

FreeLines == {"Rank", "Player", "7", "Jane Doe", "LionsRB", Marker, "5.0"}

ParseFiles ==
    (UNION {Prefixes(Block(r, t, b, <<Marker>>, 0)) :
              r \in {"7"}, t \in Tokens, b \in BetweenLines})
    \cup Blocks
    \cup {b \o f : b \in Blocks, f \in Followers}
    \cup SeqsUpTo(FreeLines, MaxFreeLen)
    \cup {p \o f : p \in SeqsUpTo({"Rank", "Player", "7"}, 2), f \in Followers}
    \cup {RBRecord("7", "Jane Doe", "55.0") \o p :
              p \in Prefixes(RBRecord("8", "Al Po", "61"))}

\* the pipeline on projection files of well-formed, malformed and cut records
InitParse == \E f \in ParseFiles : Start(f, FiftyImages)

SpecParse == InitParse /\ [][Next]_vars

\* the pipeline on OCR texts made of arbitrary lines
InitNorm ==
    \E imgs \in {FreeImages, PairImages, LooseImages} : Start(MixedFile, imgs)

SpecNorm == InitNorm /\ [][Next]_vars

\* projection files with no record, with well-formed records and with
\* malformed records before or after a well-formed one
RunFiles ==
    {<<>>, <<"Week 13", "Rank">>, JaneFile, MixedFile,
     JaneFile \o <<"Rank", "Player", "²">>,
     <<"Rank", "Player", "seven">> \o JaneFile \o <<"Rank", "Player", "9">>,
     NoMarkerRecord("1", "Jane Doe")}

\* the projections file as open() finds it
RunSources ==
    ({"ok"} \X RunFiles) \cup ({"missing", "unreadable", "undecodable"} \X {<<>>})

\* files of the images directory: images that are read, images that cannot be
\* opened or processed, files that are no images, images without text
ImageKinds ==
    {Image(".png", TRUE, "jane-two-lines"), Image(".png", FALSE, "jane-two-lines"),
     Image(".jpg", TRUE, "other"), Image(".txt", TRUE, "other"),
     Image(".gif", TRUE, "blank"), Image(".bmp", TRUE, "noise")}

\* the pipeline on sources that may be missing, unreadable or empty
InitRun ==
    \E src \in RunSources, imgs \in SeqsUpTo(ImageKinds, MaxImages) :
        StartWith(src[1], src[2], imgs)

SpecRun == InitRun /\ [][Next]_vars

-----------------------------------------------------------------------------
(* Claims about the comparison and the sort *)

Compared == pc \in {"compare", "sort", "report", "done"}
CompareReturned == pc \in {"sort", "report", "done"}

LineEntries(name) == {n \in 1..Len(player_lines) : player_lines[n].k = name}

\* the three cases of a result, stated for the k-th record; Delta(raw) is the
\* set of values the claim allows for the delta of a compared record
CaseHolds(k, Delta(_)) ==
    LET p == players[k]
        r == results[k]
        yards == {n \in 1..Len(p.projections) :
                      p.projections[n].k = "receiving_yards"
                      /\ ~p.projections[n].v.none}
    IN  /\ r.name = p.name
        /\ IF LineEntries(p.name) = {}
           THEN r.suggestion = "No Line Available" /\ r.line.na /\ r.delta.na
           ELSE \E n \in LineEntries(p.name) :
                  /\ r.line = Num(player_lines[n].v.line)
                  /\ IF yards = {}
                     THEN /\ r.suggestion = "N/A (Missing Projections)"
                          /\ r.delta.na
                     ELSE \E m \in yards :
                            LET raw == p.projections[m].v.val
                                       - player_lines[n].v.line
                            IN  /\ ~r.delta.na
                                /\ r.delta.val \in Delta(raw)
                                /\ r.suggestion =
                                       IF raw > 0 THEN "Over" ELSE "Under"

Exactly(raw) == {raw}

\* C1 (as amended): compare returns one result per projection record, in the
\* order of the records, and each result is NoLine (line and delta "N/A") when
\* the name is no key of the lines, MissingProjection (delta "N/A", line
\* stored) when receiving_yards is absent or null, and otherwise has
\* delta = projected - line rounded to 2 decimal places with suggestion Over
\* when projected - line > 0 and Under when not.
C1_OneResultPerRecord ==
    Compared =>
        /\ Len(results) = ri
        /\ CompareReturned => Len(results) = Len(players)
        /\ \A k \in 1..Len(results) : CaseHolds(k, Round2)

\* C1 as stated: the delta of a compared record is projected - line itself.
C1_DeltaIsDifference ==
    Compared => \A k \in 1..Len(results) : CaseHolds(k, Exactly)

\* the three cases in one run, the third with a delta that rounding changed
C1_Witness ==
    /\ CompareReturned
    /\ Len(results) = 3
    /\ results[1].suggestion = "No Line Available"
    /\ results[2].suggestion = "N/A (Missing Projections)"
    /\ results[3].suggestion = "Over"
    /\ results[3].delta.val # results[3].projected_yards.val - results[3].line.val

\* C2: a result whose reported (rounded) delta is 0 has suggestion Under.
C2_ZeroDeltaIsUnder ==
    \A k \in 1..Len(results) :
        (~results[k].delta.na /\ results[k].delta.val = 0)
            => results[k].suggestion = "Under"

\* magnitude by which the claim orders the results: |delta|, and the
\* sentinel below every number
Magnitude(r) == IF r.delta.na THEN -1 ELSE Abs(r.delta.val)

DeltasOf(rs) == [k \in 1..Len(rs) |-> rs[k].delta]

JaneResult(rs) ==
    \E k \in 1..Len(rs) :
        /\ rs[k].name = "Jane Doe"
        /\ rs[k].line = Num(55 * Unit)
        /\ rs[k].delta = Num(0)
        /\ rs[k].suggestion = "Under"

RunEnded == pc \in {"done", "exit", "raised"}

\* C4 (as amended): the RB record of Jane Doe with schema values
\* [10, 50, 5.0, 1, 3, 55.0, 0, 12.3] and an OCR text of the two lines
\* 'Jane Doe (RB)' and '55.0 Receiving Yards' end with a result for Jane Doe
\* of line 55.0, delta 0.00 and suggestion Under.
C4_JaneDoeTwoLines ==
    (lines = JaneFile /\ images = JaneTwoLines /\ RunEnded) =>
        pc = "done" /\ saved /\ JaneResult(sorted_results)

\* C4 as stated: the OCR text is the single line
\* 'Jane Doe (RB) 55.0 Receiving Yards'.
C4_JaneDoeOneLine ==
    (lines = JaneFile /\ images = JaneOneLine /\ RunEnded) =>
        JaneResult(sorted_results)

C4_Witness ==
    /\ lines = JaneFile /\ images = JaneTwoLines /\ pc = "done"
    /\ JaneResult(sorted_results)

-----------------------------------------------------------------------------
(* Claims about the projection parser *)

ParserActive == pc \in {"open", "outer", "marker", "schema"}
ParserRaised == pc = "raised" /\ err = "ValueError: int(rank_line)"
FileRaised == pc = "raised" /\ err \in {OpenErrors[s] : s \in DOMAIN OpenErrors}
ParserReturned == ~ParserActive /\ ~ParserRaised /\ ~FileRaised

IsPrefix(a, b) == Len(a) <= Len(b) /\ \A k \in 1..Len(a) : a[k] = b[k]

\* C5: the keys of every emitted record's projections, in insertion order, are
\* a prefix of the schema of the record's position (the empty prefix when the
\* position has no schema), with at most one key per line read.
C5_KeysPrefixOfSchema ==
    /\ \A n \in 1..Len(players) :
           IsPrefix(Keys(players[n].projections),
                    POSITION_FIELDS(players[n].position))
    /\ pc = "schema" =>
           /\ IsPrefix(Keys(projections), POSITION_FIELDS(cur.position))
           /\ Len(projections) = fi
           /\ fi < i

\* a record cut off in the middle of its schema lines
C5_Witness ==
    /\ pc = "parsed"
    /\ players # <<>>
    /\ Len(players[Len(players)].projections) \in
           1..(Len(POSITION_FIELDS(players[Len(players)].position)) - 1)

SchemaAt(s) == POSITION_FIELDS(PositionOf(Strip(Line(s + 5))))

\* a record starts at line s with a decimal rank line and a team+position token
HeadAt(s) ==
    /\ s >= 0 /\ s + 5 < total_lines
    /\ Strip(Line(s)) = "Rank" /\ Strip(Line(s + 1)) = "Player"
    /\ IsIntLiteral(Strip(Line(s + 2)))

\* the record at line s is well-formed and its marker is line m
WellFormedAt(s, m) ==
    /\ HeadAt(s)
    /\ SchemaAt(s) # <<>>
    /\ s + 5 < m /\ m + Len(SchemaAt(s)) < total_lines
    /\ Contains(Marker, Line(m))
    /\ \A k \in (s + 6)..(m - 1) : ~Contains(Marker, Line(k))
    /\ \A k \in 1..Len(SchemaAt(s)) : ~parse_number(Strip(Line(m + k))).none

\* C6: when the outer iteration that began at the anchor of a well-formed
\* record (marker: a line holding "WEEK 13 PROJECTIONS") is over, the last
\* record emitted has exactly len(schema(position)) entries, the k-th schema
\* field holding the coerced k-th line after the marker, and i stands on the
\* line after the last schema line, where the next record may begin.
C6_WellFormedRecordRead ==
    \A m \in 0..(total_lines - 1) :
        (pc = "outer" /\ WellFormedAt(i0, m)) =>
            /\ i = m + 1 + Len(SchemaAt(i0))
            /\ players # <<>>
            /\ LET p == players[Len(players)] IN
                 /\ p.name = clean_player_name(Strip(Line(i0 + 3)))
                 /\ p.position = PositionOf(Strip(Line(i0 + 5)))
                 /\ Len(p.projections) = Len(SchemaAt(i0))
                 /\ \A k \in 1..Len(SchemaAt(i0)) :
                        p.projections[k] =
                            [k |-> SchemaAt(i0)[k],
                             v |-> parse_number(Strip(Line(m + k)))]

\* two well-formed records, the second starting on the line after the first
C6_Witness ==
    /\ pc = "outer"
    /\ Len(players) = 2
    /\ \E m1, m2 \in 0..(total_lines - 1) :
          /\ WellFormedAt(0, m1)
          /\ i0 = m1 + 1 + Len(SchemaAt(0))
          /\ WellFormedAt(i0, m2)
    /\ Len(players[1].projections) = Len(POSITION_FIELDS(players[1].position))
    /\ Len(players[2].projections) = Len(POSITION_FIELDS(players[2].position))

\* C7: the parser never raises, and i has grown in every iteration begun.
C7_ParserNeverRaises == i > i0 /\ ~ParserRaised

NoMarkerFrom(k) == \A n \in k..(total_lines - 1) : ~Contains(Marker, Line(n))

\* C8: a record whose head the parser has read and that has no marker line
\* between its team+position line and the end of the input is emitted with
\* projections = {}; a line for its name makes its result MissingProjection.
C8_MissingMarker ==
    (pc # "marker" /\ HeadAt(i0) /\ NoMarkerFrom(i0 + 6)) =>
        /\ players # <<>>
        /\ players[Len(players)] =
               Player(clean_player_name(Strip(Line(i0 + 3))),
                      clean_team_name(Strip(Line(i0 + 5))),
                      PositionOf(Strip(Line(i0 + 5))), <<>>)
        /\ (CompareReturned /\ LineEntries(players[Len(players)].name) # {}) =>
               /\ Len(results) = Len(players)
               /\ results[Len(results)].name = players[Len(players)].name
               /\ results[Len(results)].suggestion = "N/A (Missing Projections)"

C8_Witness ==
    /\ pc = "done"
    /\ HeadAt(i0) /\ NoMarkerFrom(i0 + 6)
    /\ players[Len(players)].projections = <<>>
    /\ results[Len(results)].suggestion = "N/A (Missing Projections)"

\* C9 (as amended): when the input is exhausted after the name line of a
\* record has been read (before its team+position token, before its marker or
\* in the middle of its schema lines) the parse returns the records emitted
\* before it, unchanged, and a partial record for it; a record whose input
\* ends right after its rank line is not emitted, and it is the only record
\* begun that is not.
C9_PartialRecordOnceNamed ==
    /\ [](ParserReturned =>
            /\ Len(players) = named
            /\ begun # named =>
                 /\ begun = named + 1
                 /\ i0 = total_lines - 3
                 /\ IsAnchor(i0))
    /\ [][run' = run => IsPrefix(players, players')]_vars

\* C9 as stated: every record whose rank was read is emitted.
C9_EveryBegunRecordEmitted == ParserReturned => Len(players) = begun

\* the input ended before the team+position token of the second record
C9_Witness ==
    /\ pc = "parsed"
    /\ Len(players) = 2
    /\ players[2].team = "Unknown"
    /\ players[2].name = "Al Po"

-----------------------------------------------------------------------------
(* Claims about the OCR normalizer *)

\* the matches read so far that carry the name
Occurrences(name) == {m \in 1..Len(extracted) : extracted[m].name = name}

\* C10: while the combined lines are read and when parse_line_data has
\* returned, the mapping holds one entry per distinct name of the combined
\* lines that matched the pattern so far; its line is the maximum over the
\* occurrences of the name, whatever their order, and its position is that of
\* an occurrence with that maximum.
C10_OneEntryPerNameWithMaximum ==
    /\ \A a, b \in 1..Len(player_lines) :
           player_lines[a].k = player_lines[b].k => a = b
    /\ \A m \in 1..Len(extracted) :
           \E a \in 1..Len(player_lines) : player_lines[a].k = extracted[m].name
    /\ \A a \in 1..Len(player_lines) :
           LET occ == Occurrences(player_lines[a].k) IN
             /\ occ # {}
             /\ \A m \in occ : extracted[m].line <= player_lines[a].v.line
             /\ \E m \in occ :
                  /\ extracted[m].line = player_lines[a].v.line
                  /\ extracted[m].position = player_lines[a].v.position

\* the same name with 65.0, then 70.5, then 65.0, and with two positions
C10_Witness ==
    /\ pc = "compare"
    /\ Len(extracted) = 3
    /\ Len(player_lines) = 1
    /\ extracted[1].line < extracted[2].line
    /\ extracted[3].line < extracted[2].line
    /\ extracted[1].position # extracted[2].position
    /\ player_lines[1].v = PlayerLine(extracted[2].position, extracted[2].line)

\* the classes of an OCR line: Header holds both parentheses, Data holds the
\* phrase and is no Header, every other line is Noise or empty
HeaderLine(n) == Strip(text[n]) # "" /\ IsHeader(Strip(text[n]))
DataLine(n) ==
    /\ Strip(text[n]) # "" /\ ~IsHeader(Strip(text[n]))
    /\ Contains("Receiving Yards", Strip(text[n]))

\* <<h, d>>: among the first n lines, d is the first Data line after the
\* Header h and no other Header lies between them
PairsUpTo(n) ==
    {p \in (1..n) \X (1..n) :
        /\ p[1] < p[2] /\ HeaderLine(p[1]) /\ DataLine(p[2])
        /\ \A k \in (p[1] + 1)..(p[2] - 1) : ~HeaderLine(k) /\ ~DataLine(k)}

\* the Headers among the first n lines that no later line has paired or
\* replaced
PendingUpTo(n) ==
    {h \in 1..n :
        HeaderLine(h) /\ \A k \in (h + 1)..n : ~HeaderLine(k) /\ ~DataLine(k)}

\* C11: after any number of OCR lines, the combined lines are, in input
\* order, the concatenations (header, one space, data) of every Header with the
\* first Data line that follows it with no other Header in between; a Header
\* is in at most one pair, a Header followed by a Header and a Data line with
\* no pending Header give nothing, Noise and empty lines change nothing, and
\* the pending slot holds the last Header not yet paired or replaced.
C11_SinglePendingSlot ==
    pc \in {"pair", "extract"} =>
        LET P == PairsUpTo(j) IN
        /\ Len(combined_lines) = Cardinality(P)
        /\ \A p \in P :
               combined_lines[Cardinality({q \in P : q[2] < p[2]}) + 1] =
                   Strip(text[p[1]]) \o " " \o Strip(text[p[2]])
        /\ \A p, q \in P : (p[1] = q[1] \/ p[2] = q[2]) => p = q
        /\ IF PendingUpTo(j) = {} THEN current_player = ""
           ELSE \A h \in PendingUpTo(j) : current_player = Strip(text[h])

\* two Headers, a Noise or empty line, a padded Data line and a second Data
\* line: one combined line, of the second Header
C11_Witness ==
    /\ pc = "extract"
    /\ Len(text) = 4
    /\ HeaderLine(1) /\ HeaderLine(2) /\ text[1] # text[2]
    /\ ~HeaderLine(3) /\ ~DataLine(3)
    /\ DataLine(4) /\ text[4] # Strip(text[4])
    /\ combined_lines = <<Strip(text[2]) \o " " \o Strip(text[4])>>

NormalizerRaised == pc = "raised" /\ err = "ValueError: float(match.group(3))"

\* C12: parse_line_data never raises: a combined line whose number token is
\* made of digits and dots but is no decimal number is dropped, not raised on.
C12_NormalizeNeverRaises == ~NormalizerRaised

-----------------------------------------------------------------------------
(* Claims about the run *)

\* the four stage outputs
NoRecords == players = <<>>
NoText == \A n \in 1..Len(text) : Strip(text[n]) = ""
NoLines == player_lines = <<>>
NoResults == results = <<>>

\* the stages after the parse, the OCR, the normalizer have not begun
OcrUntouched == img = 0 /\ text = <<>>
NormUntouched ==
    /\ j = 0 /\ current_player = "" /\ combined_lines = <<>> /\ ci = 0
    /\ player_lines = <<>>
CompareUntouched == ri = 0 /\ results = <<>> /\ sorted_results = <<>>

\* the checkpoints of main(): output is written only at the end of a run
\* whose four stage outputs are all non-empty, a stage runs only when every
\* earlier output is non-empty, and a run that returns early does so at the
\* boundary behind the empty output with no later stage begun
CheckpointsHold ==
    /\ saved <=> pc = "done"
    /\ saved => ~NoRecords /\ ~NoText /\ ~NoLines /\ ~NoResults
                 /\ Len(sorted_results) = Len(results)
    /\ pc \in {"ocr", "pair", "extract", "compare", "sort", "report", "done"}
          => ~NoRecords
    /\ pc \in {"pair", "extract", "compare", "sort", "report", "done"} => ~NoText
    /\ pc \in {"compare", "sort", "report", "done"} => ~NoLines
    /\ pc \in {"sort", "report", "done"} => ~NoResults
    /\ pc = "exit" =>
          /\ ~saved /\ CompareUntouched
          /\ \/ NoRecords /\ OcrUntouched /\ NormUntouched
             \/ ~NoRecords /\ NoText /\ img = Len(images) /\ NormUntouched
             \/ ~NoRecords /\ ~NoText /\ NoLines /\ j = Len(text)
                /\ ci = Len(combined_lines)

\* C13: the run writes output only if the records, the OCR text, the
\* normalized lines and the comparison results are all non-empty; a run with
\* an empty stage output ends at that boundary with no later stage run and
\* nothing written; and a malformed record never ends the run: once a record
\* has been parsed, no later record makes the parse raise.
C13_EmptyResultCheckpoints ==
    /\ CheckpointsHold
    /\ ~NoRecords => ~ParserRaised

\* what a file of the images directory may add to the text: nothing when it
\* is no image, the empty text when it cannot be opened or processed
Contributions(image) ==
    IF image.ext \notin ALLOWED_IMAGE_EXTENSIONS THEN {<<>>}
    ELSE IF ~image.ok THEN {<<"">>}
    ELSE {IF t = <<>> THEN <<"">> ELSE t : t \in TextsOf(image.text)}

\* the texts the first n files may give together
RECURSIVE TextsAfter(_)
TextsAfter(n) ==
    IF n = 0 THEN {<<>>}
    ELSE {t \o c : t \in TextsAfter(n - 1), c \in Contributions(images[n])}

\* C14: whatever the reason a source cannot be opened or read, no exception
\* escapes: a projections file that is missing, unreadable or undecodable
\* gives the empty record list, an image that fails gives the empty text, and
\* the images after it are still processed and their text included.
C14_SourceUnavailable ==
    /\ ~FileRaised
    /\ (source # "ok" /\ pc # "open") => pc \in {"parsed", "exit"} /\ players = <<>>
    /\ text \in TextsAfter(img)
    /\ pc \in {"pair", "extract", "compare", "sort", "report", "done"}
          => img = Len(images)

-----------------------------------------------------------------------------
(* Claims about the team+position token *)

\* the team+position token of the record whose anchor is line i0
TokenAt(s) == Strip(Line(s + 5))

\* the record being read, or the record the iteration has emitted
HeadRead == pc \in {"marker", "schema"} \/ (pc = "outer" /\ HeadAt(i0))
TeamRead == IF pc = "outer" THEN players[Len(players)].team ELSE cur.team
PositionRead ==
    IF pc = "outer" THEN players[Len(players)].position ELSE cur.position

\* C15 (as amended): for a token longer than 2 characters the position is its
\* last 2 characters, trimmed, and the team is the remainder, trimmed
\* ('LionsLionsRB' gives team 'LionsLions', position 'RB'); for a token of 2
\* characters or fewer both the team and the position are the token itself.
C15_TeamPositionSplit ==
    HeadRead =>
        LET tok == TokenAt(i0)
            n == Len(tok)
        IN  /\ n > 2 => /\ PositionRead = Strip(SubSeq(tok, n - 1, n))
                        /\ TeamRead = Strip(SubSeq(tok, 1, n - 2))
            /\ n <= 2 => TeamRead = tok /\ PositionRead = tok
            /\ tok = "LionsLionsRB" =>
                  TeamRead = "LionsLions" /\ PositionRead = "RB"

\* C15 as stated: a token of 2 characters or fewer is the team and the
\* position is empty.
C15_ShortTokenNoPosition ==
    (HeadRead /\ Len(TokenAt(i0)) <= 2) =>
        TeamRead = TokenAt(i0) /\ PositionRead = ""

\* a record with the token 'RB' has been emitted: team 'RB', position 'RB',
\* and the RB schema read
C15_Witness ==
    /\ pc = "outer" /\ HeadAt(i0)
    /\ TokenAt(i0) = "RB"
    /\ players[Len(players)].team = "RB"
    /\ players[Len(players)].position = "RB"
    /\ Len(players[Len(players)].projections) = 8

-----------------------------------------------------------------------------
(* Claims about two runs *)

-----------------------------------------------------------------------------
(* Claims about malformed records *)

\* the record at line s is well-formed with its own marker at line m: no
\* other anchor begins between its rank line and its last schema line
OwnRecordAt(s, m) ==
    /\ WellFormedAt(s, m)
    /\ \A k \in (s + 2)..(m + Len(SchemaAt(s))) : ~IsAnchor(k)

\* the record the well-formed lines at s, with marker at m, stand for
RecordAt(s, m) ==
    Player(clean_player_name(Strip(Line(s + 3))),
           clean_team_name(TokenAt(s)), PositionOf(TokenAt(s)),
           [k \in 1..Len(SchemaAt(s)) |->
               [k |-> SchemaAt(s)[k], v |-> parse_number(Strip(Line(m + k)))]])

\* a malformed record begins at line s: its rank is no digit string, its
\* position is unknown, or its marker or some of its schema lines are missing
\* before the next anchor
MalformedAt(s) ==
    /\ s >= 0 /\ s < total_lines /\ IsAnchor(s)
    /\ \A m \in 0..(total_lines - 1) : ~OwnRecordAt(s, m)

\* C17: the parse returns, for every well-formed record that follows a
\* malformed one, a record with its own name, team, position and complete
\* projections: no malformed record takes the anchor, the marker or the field
\* lines of a later record.
C17_MalformedRecordIsLocal ==
    ParserReturned =>
        \A s \in 1..(total_lines - 1), m \in 1..(total_lines - 1) :
            (OwnRecordAt(s, m) /\ \E b \in 0..(s - 1) : MalformedAt(b)) =>
                \E n \in 1..Len(players) : players[n] = RecordAt(s, m)

\* the line after the anchor at line s is no digit string
RankFailedAt(s) ==
    /\ s >= 0 /\ s + 2 < total_lines
    /\ IsAnchor(s)
    /\ ~IsDigit(Strip(Line(s + 2)))

\* C18: when the line after an anchor is no digit string, the iteration ends
\* with no record emitted for the anchor and the records emitted before as
\* they were, and the parser is back in its outer loop with no record lost:
\* an anchor that begins on the offending line is still ahead of i, and the
\* well-formed record of such an anchor is emitted.
C18_RankFailureLosesNothing ==
    /\ (pc = "outer" /\ RankFailedAt(i0)) =>
          /\ Len(players) = named /\ begun = named
          /\ IsAnchor(i0 + 2) => i <= i0 + 2
    /\ ParserReturned =>
          \A m \in 1..(total_lines - 1) :
              (RankFailedAt(0) /\ OwnRecordAt(2, m)) =>
                  \E n \in 1..Len(players) : players[n] = RecordAt(2, m)

-----------------------------------------------------------------------------
(* Claims about the marker *)

\* the line holds the phrase of week 13
Week13(line) == Contains("WEEK 13 PROJECTIONS", line)

\* the line holds the phrase of some week
AnyWeek(line) ==
    \E n \in {"1", "13", "14"} : Contains("WEEK " \o n \o " PROJECTIONS", line)

\* C19 (as amended): the marker scan ends only on a line that holds
\* 'WEEK 13 PROJECTIONS', the first such line after the team+position line,
\* and the lines after it are read as the schema fields; a line
\* 'WEEK N PROJECTIONS' of another week is passed over like any other line,
\* and a record with no week-13 line before the end of the input is emitted
\* with projections = {}.
C19_MarkerIsWeek13 ==
    /\ pc = "schema" =>
          LET m == i - fi - 1 IN
          /\ m > i0 + 5
          /\ Week13(Line(m))
          /\ \A k \in (i0 + 6)..(m - 1) : ~Week13(Line(k))
    /\ (pc = "outer" /\ HeadAt(i0)
           /\ \A k \in (i0 + 6)..(total_lines - 1) : ~Week13(Line(k))) =>
          /\ i = total_lines
          /\ players # <<>>
          /\ players[Len(players)].projections = <<>>

\* C19 as stated: a record with a known position whose first line of some
\* week's phrase is line m, followed by its schema lines, is emitted with the
\* k-th schema field read from the k-th line after m, whatever the week.
C19_AnyWeekMarker ==
    \A m \in 0..(total_lines - 1) :
        (/\ pc = "outer" /\ HeadAt(i0) /\ SchemaAt(i0) # <<>>
         /\ i0 + 5 < m /\ m + Len(SchemaAt(i0)) < total_lines
         /\ AnyWeek(Line(m))
         /\ \A k \in (i0 + 6)..(m - 1) : ~AnyWeek(Line(k))
         /\ \A k \in 1..Len(SchemaAt(i0)) : ~parse_number(Strip(Line(m + k))).none)
        => /\ players # <<>>
           /\ players[Len(players)] = RecordAt(i0, m)

\* a record whose lines are well-formed but for the week of its marker,
\* 'WEEK 14 PROJECTIONS', has been emitted without projections
C19_Witness ==
    /\ pc = "outer" /\ HeadAt(i0) /\ SchemaAt(i0) # <<>>
    /\ i0 + 6 + Len(SchemaAt(i0)) = total_lines - 1
    /\ Line(i0 + 6) = "WEEK 14 PROJECTIONS"
    /\ i = total_lines
    /\ players[Len(players)].projections = <<>>

-----------------------------------------------------------------------------
(* Claims about the classes of OCR lines *)

Parens(line) == Contains("(", line) /\ Contains(")", line)
Phrase(line) == Contains("Receiving Yards", line)

\* what the three classes do to the pending header and the combined lines
HeaderStep(line) == current_player' = line /\ combined_lines' = combined_lines
DataStep(line) ==
    IF current_player = ""
    THEN UNCHANGED <<current_player, combined_lines>>
    ELSE /\ current_player' = ""
         /\ combined_lines' =
                Append(combined_lines, current_player \o " " \o line)
NoiseStep == UNCHANGED <<current_player, combined_lines>>

\* C20: every step of the pairing loop handles its line, trimmed, as exactly
\* one class: an empty line is skipped; a line with both parentheses is a
\* Header, also when it holds 'Receiving Yards' - it becomes the pending
\* header and adds no combined line, so it is never paired as Data with the
\* header pending before it; a line with the phrase and not both parentheses
\* is Data; every other line is Noise.
C20_HeaderTakesPrecedence ==
    [][(pc = "pair" /\ j' = j + 1) =>
         LET line == Strip(text[j + 1]) IN
         CASE line = "" -> NoiseStep
           [] line # "" /\ Parens(line) -> HeaderStep(line)
           [] line # "" /\ ~Parens(line) /\ Phrase(line) -> DataStep(line)
           [] OTHER -> NoiseStep]_vars

\* a line with both parentheses and the phrase has replaced the header that
\* was pending, and nothing was combined
C20_Witness ==
    /\ pc = "pair" /\ j >= 2
    /\ Parens(Strip(text[j - 1])) /\ ~Phrase(Strip(text[j - 1]))
    /\ Parens(Strip(text[j])) /\ Phrase(Strip(text[j]))
    /\ current_player = Strip(text[j])
    /\ combined_lines = <<>>

====
